---- MODULE Spec2Model ----
(***************************************************************************)
(* Model of the contract-deployment pipeline of pharos-cargo-stylus:       *)
(*   - the deployment codec (contract_deployment_calldata and the two      *)
(*     extract_* functions) of src/main/src/deploy/mod.rs and check.rs,    *)
(*   - the fee arithmetic (gwei_to_wei, the total cost of                  *)
(*     print_gas_estimate),                                                *)
(*   - the transaction driver (deploy, DeployConfig::deploy_contract,      *)
(*     run_tx) as a state machine whose steps are the calls it awaits.     *)
(*                                                                         *)
(* Wide integers (u128, U256) are little-endian sequences of byte limbs,   *)
(* so that products are exact and overflow is decided at the real width.   *)
(***************************************************************************)
EXTENDS Integers, Sequences, FiniteSets, Bags, TLC

VARIABLES
    \* ---- codec (pure functions applied to a payload)
    cstage,        \* "input" | "encoded"
    payload,       \* the code: &[u8] handed to the encoder
    calldata,      \* deploy::contract_deployment_calldata(payload)
    cprelude,      \* result of extract_contract_evm_deployment_prelude
    cwasm,         \* result of extract_compressed_wasm
    check_calldata, \* check::contract_deployment_calldata(payload)
    \* ---- fee arithmetic (pure function gwei_to_wei)
    fstage,        \* "input" | "converted"
    gwei,          \* the u128 argument
    wei,           \* the Result<u128> returned
    \* ---- transaction driver (one deployment attempt)
    pc,            \* position of deploy()
    cfg,           \* DeployConfig fields read by the driver
    contract,      \* ContractCheck returned by check::check
    printed,       \* hex text printed under DEPLOYMENT_CODE by check
    sender,        \* wallet.address()
    balance,       \* the balance the chain client reported
    tx,            \* Eip1559TransactionRequest built by deploy_contract
    est_tx,        \* the request handed to estimate_gas
    sent_tx,       \* the transaction handed to send_transaction
    gas,           \* estimate returned by estimate_gas
    gas_price,     \* price returned by get_gas_price
    total_cost,    \* total cost computed by print_gas_estimate
    tx_hash,       \* hash of the pending transaction
    receipt,       \* receipt returned by the receipt wait
    calls,         \* chain-client calls made so far, in order
    dc_result,     \* Result<H160> of deploy_contract
    outcome        \* Result<()> of deploy, or a panic

codecVars  == <<cstage, payload, calldata, cprelude, cwasm, check_calldata>>
feeVars    == <<fstage, gwei, wei>>
driverVars == <<pc, cfg, contract, printed, sender, balance, tx, est_tx, sent_tx,
                gas, gas_price, total_cost, tx_hash, receipt, calls, dc_result,
                outcome>>
vars       == <<codecVars, feeVars, driverVars>>

----------------------------------------------------------------------------
(* Bounds of the model.                                                    *)

\* longest enumerated payload (every byte string over ByteSamples up to it)
MaxLen == 3
\* largest constructor value; balances range one past it
MaxValue == 1
\* largest nonce the chain client reports
MaxNonce == 1

ByteSamples == {0, 1, 255}
\* payload lengths around the one-byte boundary of the length field, and 2^16
LongLens == {255, 256, 257, 65536}

----------------------------------------------------------------------------
(* Byte strings and wide integers.                                         *)

None == [kind |-> "None"]
Some(v) == [kind |-> "Some", value |-> v]
Ok(v) == [kind |-> "Ok", value |-> v]
Err(r) == [kind |-> "Err", reason |-> r]
Panic(r) == [kind |-> "Panic", reason |-> r]

U256Bytes == 32
U128Bytes == 16

Zeros(n) == [i \in 1..n |-> 0]

\* little-endian limbs of a small natural, w limbs wide
RECURSIVE Limbs(_, _)
Limbs(n, w) == IF w = 0 THEN <<>> ELSE <<n % 256>> \o Limbs(n \div 256, w - 1)

\* 2^k as w limbs
Pow2(k, w) == [i \in 1..w |-> IF i = (k \div 8) + 1 THEN 2^(k % 8) ELSE 0]

\* the largest value of w limbs
MaxOf(w) == [i \in 1..w |-> 255]

IsZero(a) == \A i \in 1..Len(a) : a[i] = 0

\* sum of a[i+1] * b[k-i+1] over the limb pairs of column k (0-based): the
\* non-zero limb products form a bag, whose cardinality is their sum
ColSum(a, b, k) ==
    BagCardinality([i \in {j \in 0..k : /\ j < Len(a)
                                        /\ k - j < Len(b)
                                        /\ a[j + 1] * b[k - j + 1] > 0}
                      |-> a[i + 1] * b[k - i + 1]])

\* the column sums of the product, Len(a) + Len(b) columns
MulCols(a, b) == [k \in 1..(Len(a) + Len(b)) |-> ColSum(a, b, k - 1)] \o <<>>

\* one carry pass: a column keeps its low byte and takes the high part of the
\* column below it (the top column of a product never exceeds one byte)
CarryPass(c) ==
    [k \in 1..Len(c) |-> (c[k] % 256) + (IF k = 1 THEN 0 ELSE c[k - 1] \div 256)] \o <<>>

\* the carry into column k once every column is at most 256: some column below
\* overflows and every column between is 255
CarryIn(v, k) ==
    \E j \in 1..(k - 1) : v[j] >= 256 /\ \A m \in (j + 1)..(k - 1) : v[m] = 255

Ripple(v) ==
    [k \in 1..Len(v) |-> (v[k] + (IF CarryIn(v, k) THEN 1 ELSE 0)) % 256] \o <<>>

\* the exact product, Len(a) + Len(b) limbs: the column sums of at most 32 limb
\* products are below 2^21, three carry passes bring every column to at most
\* 256, and the remaining carries are single bits
MulFull(a, b) ==
    CHOOSE r \in {Ripple(c3) :
                    c3 \in {CarryPass(c2) :
                      c2 \in {CarryPass(c1) :
                        c1 \in {MulCols(x, y) : x \in {a}, y \in {b}}}}} : TRUE

\* checked_mul of two values of the same width: None on overflow
checked_mul(a, b) ==
    CHOOSE r \in {IF IsZero(SubSeq(p, Len(a) + 1, 2 * Len(a)))
                  THEN Some(SubSeq(p, 1, Len(a))) ELSE None :
                     p \in {MulFull(a, b)}} : TRUE

\* Option::unwrap_or_default on an Option<U256>
unwrap_or_default(o, w) == IF o.kind = "Some" THEN o.value ELSE Zeros(w)

----------------------------------------------------------------------------
(* Deployment codec.                                                       *)

\* U256::from(n).to_big_endian(&mut [0u8; k]): most significant byte first
RECURSIVE to_big_endian(_, _)
to_big_endian(n, k) ==
    IF k = 0 THEN <<>> ELSE to_big_endian(n \div 256, k - 1) \o <<n % 256>>

\* a plausible slip: the copy offset leaves out the version byte
contract_deployment_calldata_offset42(code) ==
    <<127>> \o to_big_endian(Len(code), U256Bytes)
    \o <<128, 96, 42, 96, 0, 57, 96, 0, 243, 0>> \o code

\* deploy::contract_deployment_calldata
contract_deployment_calldata(code) ==
    LET code_len == to_big_endian(Len(code), U256Bytes)
    IN  <<127>>              \* 0x7f PUSH32
        \o code_len
        \o <<128>>           \* 0x80 DUP1
        \o <<96>>            \* 0x60 PUSH1
        \o <<42 + 1>>        \* prelude + version
        \o <<96>>            \* 0x60 PUSH1
        \o <<0>>
        \o <<57>>            \* 0x39 CODECOPY
        \o <<96>>            \* 0x60 PUSH1
        \o <<0>>
        \o <<243>>           \* 0xf3 RETURN
        \o <<0>>             \* version
        \o code

\* a plausible slip: the copy of check.rs leaves out the version byte
check_contract_deployment_calldata_noversion(code) ==
    <<127>> \o to_big_endian(Len(code), U256Bytes)
    \o <<128, 96, 42 + 1, 96, 0, 57, 96, 0, 243>> \o code

\* check::contract_deployment_calldata, the second copy of the encoder
check_contract_deployment_calldata(code) ==
    LET code_len == to_big_endian(Len(code), U256Bytes)
    IN  <<127>> \o code_len \o <<128>> \o <<96>> \o <<42 + 1>> \o <<96>> \o <<0>>
        \o <<57>> \o <<96>> \o <<0>> \o <<243>> \o <<0>> \o code

\* the split offset, written 42 + 1 in both extract functions
metadata_length == 42 + 1

\* calldata[0..metadata_length].to_vec(); the slice panics when out of range
extract_contract_evm_deployment_prelude(data) ==
    IF Len(data) < metadata_length THEN Panic("range end index out of range")
    ELSE Ok(SubSeq(data, 1, metadata_length))

\* a plausible slip: the split leaves the version byte with the payload
extract_compressed_wasm_offset42(data) ==
    IF Len(data) < 42 THEN Panic("range start index out of range")
    ELSE Ok(SubSeq(data, 42 + 1, Len(data)))

\* calldata[metadata_length..].to_vec(); the slice panics when out of range
extract_compressed_wasm(data) ==
    IF Len(data) < metadata_length THEN Panic("range start index out of range")
    ELSE Ok(SubSeq(data, metadata_length + 1, Len(data)))

----------------------------------------------------------------------------
(* Fee arithmetic.                                                         *)

\* let wei_per_gwei: u128 = 10u128.pow(9)
wei_per_gwei == Limbs(10^9, U128Bytes)

\* a plausible slip: wrapping_mul instead of checked_mul
gwei_to_wei_wrapping(g) ==
    Ok(SubSeq(MulFull(g, wei_per_gwei), 1, U128Bytes))

\* deploy::gwei_to_wei
gwei_to_wei(g) ==
    CHOOSE r \in {IF m.kind = "Some" THEN Ok(m.value)
                  ELSE Err("overflow occurred while converting gwei to wei") :
                     m \in {checked_mul(g, wei_per_gwei)}} : TRUE

\* gas_price.checked_mul(gas).unwrap_or_default() of print_gas_estimate
TotalCost(price, units) == unwrap_or_default(checked_mul(price, units), U256Bytes)

----------------------------------------------------------------------------
(* Arithmetic used to state the properties, independent of MulFull.        *)

\* quotient and remainder of limbs a by a small divisor d (d * 256 < 2^31)
DivSmall(a, d) ==
    LET n == Len(a)
        rem[i \in 1..(n + 1)] == IF i = n + 1 THEN 0 ELSE (rem[i + 1] * 256 + a[i]) % d
    IN  [q |-> [i \in 1..n |-> (rem[i + 1] * 256 + a[i]) \div d], r |-> rem[1]]

\* a \div 10^9 and whether the division is exact, as three divisions by 1000
DivBillion(a) ==
    LET d1 == DivSmall(a, 1000)
        d2 == DivSmall(d1.q, 1000)
        d3 == DivSmall(d2.q, 1000)
    IN  [q |-> d3.q, exact |-> d1.r = 0 /\ d2.r = 0 /\ d3.r = 0]

\* a > b for limbs of the same width
Greater(a, b) ==
    \E i \in 1..Len(a) : a[i] > b[i] /\ \A j \in (i + 1)..Len(a) : a[j] = b[j]

\* a + 1 for limbs a that are not all 255
Succ(a) ==
    LET low == CHOOSE i \in 1..Len(a) : a[i] < 255 /\ \A j \in 1..(i - 1) : a[j] = 255
    IN  [i \in 1..Len(a) |-> IF i < low THEN 0 ELSE IF i = low THEN a[i] + 1 ELSE a[i]]

\* the largest gwei amount whose wei value fits in a u128
MaxGweiFit == DivBillion(MaxOf(U128Bytes)).q

\* value of a big-endian byte string with a small value (Horner)
RECURSIVE BigEndianValue(_)
BigEndianValue(b) ==
    IF b = <<>> THEN 0
    ELSE BigEndianValue(SubSeq(b, 1, Len(b) - 1)) * 256 + b[Len(b)]

----------------------------------------------------------------------------
(* Inputs.                                                                 *)

RECURSIVE SeqsUpTo(_, _)
SeqsUpTo(S, n) ==
    IF n = 0 THEN {<<>>}
    ELSE LET shorter == SeqsUpTo(S, n - 1)
         IN  shorter \cup {Append(s, b) : s \in shorter, b \in S}

Payloads == SeqsUpTo(ByteSamples, MaxLen)
            \cup {[i \in 1..n |-> 255] : n \in LongLens}

GweiInputs == {Limbs(n, U128Bytes) : n \in 0..2}
              \cup {Pow2(k, U128Bytes) : k \in 0..(8 * U128Bytes - 1)}
              \cup {MaxGweiFit, Succ(MaxGweiFit), MaxOf(U128Bytes)}

\* values of the variables a specification does not use
CodecIdle ==
    /\ cstage = "idle" /\ payload = <<>> /\ calldata = <<>>
    /\ cprelude = None /\ cwasm = None /\ check_calldata = None
FeeIdle ==
    /\ fstage = "idle" /\ gwei = Zeros(U128Bytes) /\ wei = None
DriverIdle ==
    /\ pc = "idle" /\ cfg = None /\ contract = None /\ printed = <<>>
    /\ sender = 0 /\ balance = None /\ tx = None /\ est_tx = None /\ sent_tx = None
    /\ gas = None /\ gas_price = None /\ total_cost = None /\ tx_hash = None
    /\ receipt = None
    /\ calls = <<>> /\ dc_result = None /\ outcome = None

----------------------------------------------------------------------------
(* The codec applied to a payload.                                         *)

InitCodec ==
    /\ cstage = "input"
    /\ payload \in Payloads
    /\ calldata = <<>>
    /\ cprelude = None
    /\ cwasm = None
    /\ check_calldata = None
    /\ FeeIdle /\ DriverIdle

Encode ==
    /\ cstage = "input"
    /\ calldata' = contract_deployment_calldata(payload)
    /\ cstage' = "encoded"
    /\ UNCHANGED <<payload, cprelude, cwasm, check_calldata, feeVars, driverVars>>

ExtractPrelude ==
    /\ cstage = "encoded"
    /\ cprelude = None
    /\ cprelude' = Some(extract_contract_evm_deployment_prelude(calldata))
    /\ UNCHANGED <<cstage, payload, calldata, cwasm, check_calldata, feeVars,
                   driverVars>>

ExtractWasm ==
    /\ cstage = "encoded"
    /\ cwasm = None
    /\ cwasm' = Some(extract_compressed_wasm(calldata))
    /\ UNCHANGED <<cstage, payload, calldata, cprelude, check_calldata, feeVars,
                   driverVars>>

\* the encoder copy of check.rs applied to the same payload
EncodeCheck ==
    /\ cstage \in {"input", "encoded"}
    /\ check_calldata = None
    /\ check_calldata' = Some(check_contract_deployment_calldata(payload))
    /\ UNCHANGED <<cstage, payload, calldata, cprelude, cwasm, feeVars, driverVars>>

NextCodec == Encode \/ ExtractPrelude \/ ExtractWasm \/ EncodeCheck

SpecCodec == InitCodec /\ [][NextCodec]_vars

----------------------------------------------------------------------------
(* gwei_to_wei applied to an amount.                                       *)

InitFee ==
    /\ fstage = "input"
    /\ gwei \in GweiInputs
    /\ wei = None
    /\ CodecIdle /\ DriverIdle

Convert ==
    /\ fstage = "input"
    /\ wei' = gwei_to_wei(gwei)
    /\ fstage' = "converted"
    /\ UNCHANGED <<gwei, codecVars, driverVars>>

NextFee == Convert

SpecFee == InitFee /\ [][NextFee]_vars

----------------------------------------------------------------------------
(* The transaction driver: deploy, deploy_contract, run_tx.                *)

Senders == {1, 2}
TxHashes == {101, 102}
WasmSamples == {<<0, 97>>, <<0, 97, 115>>}
CompressedSamples == {<<239, 240>>, <<239>>}
GasValues == {Limbs(21000, U256Bytes), Pow2(200, U256Bytes)}
GasPrices == {Limbs(10^9, U256Bytes), Pow2(100, U256Bytes)}
MaxFeeInputs == {None, Some(Limbs(1, U128Bytes)), Some(Succ(MaxGweiFit))}

Configs ==
    [estimate_gas : BOOLEAN,
     verbose : BOOLEAN,
     experimental_constructor_value : 0..MaxValue,
     max_fee_per_gas_gwei : MaxFeeInputs]

\* project::compress_wasm: (wasm_file_bytes, code), or a failure
compress_wasm_results ==
    {Err("failed to compress WASM")}
    \cup {Ok([wasm_file_bytes |-> w, code |-> c]) :
            w \in WasmSamples, c \in CompressedSamples}

\* init_code.iter().map(|byte| format!("{:02x}", byte)).collect()
HexDigit == <<"0", "1", "2", "3", "4", "5", "6", "7",
              "8", "9", "a", "b", "c", "d", "e", "f">>
RECURSIVE Hex(_)
Hex(bytes) ==
    IF bytes = <<>> THEN <<>>
    ELSE <<HexDigit[(Head(bytes) \div 16) + 1], HexDigit[(Head(bytes) % 16) + 1]>>
         \o Hex(Tail(bytes))

\* a plausible slip: check quotes a data fee that is not zero
ReadyWithFee(out) == [code |-> out.wasm_file_bytes, fee |-> 1]

\* ContractCheck::Ready { code: wasm_file_bytes, fee: U256::from(0_u32) }
Ready(out) == [code |-> out.wasm_file_bytes, fee |-> 0]

\* ethers::utils::get_contract_address(sender, nonce)
get_contract_address(s, n) == <<s, n>>

\* H160::default()
ZeroAddress == <<0, 0>>

\* one chain-client call: the operation, whether it returned Ok, its value
Call(op, ok, val) == [op |-> op, ok |-> ok, val |-> val]

\* Err whose message carries the hash of the submitted transaction
ErrTx(r, h) == [kind |-> "Err", reason |-> r, tx_hash |-> h]

\* U256::from(u128)
Widen(a) == a \o Zeros(U256Bytes - Len(a))

InitDriver ==
    /\ pc = "check"
    /\ cfg \in Configs
    /\ contract = None /\ printed = <<>>
    /\ sender = 0 /\ balance = None /\ tx = None /\ est_tx = None /\ sent_tx = None
    /\ gas = None /\ gas_price = None /\ total_cost = None /\ tx_hash = None
    /\ receipt = None
    /\ calls = <<>> /\ dc_result = None /\ outcome = None
    /\ CodecIdle /\ FeeIdle

\* deploy returns (or panics) with outcome o; deploy_contract had returned r
Finish(r, o) ==
    /\ pc' = "done"
    /\ dc_result' = r
    /\ outcome' = o

\* a plausible slip: a failed call is tried again instead of returned
OnFailureRetry(e) == UNCHANGED <<pc, dc_result, outcome>>

\* the ? of deploy_contract and run_tx: the error is returned, up to deploy
OnFailure(e) == Finish(e, e)

\* deploy goes on to its next step
Goto(next) ==
    /\ pc' = next
    /\ UNCHANGED <<dc_result, outcome>>

\* check::check(..).await.expect("cargo stylus check failed")
Check ==
    /\ pc = "check"
    /\ \/ \* build_wasm fails: check returns Err, expect panics
          /\ Finish(None, Panic("cargo stylus check failed"))
          /\ UNCHANGED <<contract, printed>>
       \/ \E r \in compress_wasm_results :
            IF r.kind = "Err"
            THEN /\ Finish(None, Panic("cargo stylus check failed"))
                 /\ UNCHANGED <<contract, printed>>
            ELSE /\ printed' = Hex(check_contract_deployment_calldata(r.value.code))
                 /\ contract' = Ready(r.value)
                 /\ Goto("constructor")
    /\ UNCHANGED <<cfg, sender, balance, tx, est_tx, sent_tx, gas, gas_price,
                   total_cost, tx_hash, receipt, calls, codecVars, feeVars>>

\* export_abi::get_constructor_signature()?
GetConstructorSignature ==
    /\ pc = "constructor"
    /\ \/ Finish(None, Err("constructor signature"))
       \/ Goto("provider")
    /\ UNCHANGED <<cfg, contract, printed, sender, balance, tx, est_tx, sent_tx, gas,
                   gas_price, total_cost, tx_hash, receipt, calls, codecVars, feeVars>>

\* sys::new_provider(endpoint)?
NewProvider ==
    /\ pc = "provider"
    /\ \/ Finish(None, Err("new provider"))
       \/ Goto("chainid")
    /\ UNCHANGED <<cfg, contract, printed, sender, balance, tx, est_tx, sent_tx, gas,
                   gas_price, total_cost, tx_hash, receipt, calls, codecVars, feeVars>>

\* client.get_chainid().await.expect("failed to get chain id")
GetChainId ==
    /\ pc = "chainid"
    /\ \/ /\ calls' = Append(calls, Call("get_chainid", FALSE, None))
          /\ Finish(None, Panic("failed to get chain id"))
       \/ /\ calls' = Append(calls, Call("get_chainid", TRUE, None))
          /\ Goto("wallet")
    /\ UNCHANGED <<cfg, contract, printed, sender, balance, tx, est_tx, sent_tx, gas,
                   gas_price, total_cost, tx_hash, receipt, codecVars, feeVars>>

\* cfg.auth.wallet().wrap_err("failed to load wallet")?; wallet.address()
LoadWallet ==
    /\ pc = "wallet"
    /\ \/ Finish(None, Err("failed to load wallet")) /\ UNCHANGED sender
       \/ sender' \in Senders /\ Goto("balance")
    /\ UNCHANGED <<cfg, contract, printed, balance, tx, est_tx, sent_tx, gas,
                   gas_price, total_cost, tx_hash, receipt, calls, codecVars, feeVars>>

\* contract.suggest_fee() + ethers_u256_to_alloy(cfg.experimental_constructor_value)
DataFee(c, k) == c.fee + k.experimental_constructor_value

\* a plausible slip: the comparison turned round
InsufficientFundsFlipped(b, data_fee, estimate_gas) == b > data_fee /\ ~estimate_gas

\* a plausible slip: the balance check is skipped
InsufficientFundsSkipped(b, data_fee, estimate_gas) == FALSE

\* a plausible slip: <= for <
InsufficientFundsOrEqual(b, data_fee, estimate_gas) == b <= data_fee /\ ~estimate_gas

\* balance < data_fee && !cfg.estimate_gas
InsufficientFunds(b, data_fee, estimate_gas) == b < data_fee /\ ~estimate_gas

\* client.get_balance(sender, None).await.expect(..), then the balance check
GetBalance ==
    /\ pc = "balance"
    /\ \/ /\ calls' = Append(calls, Call("get_balance", FALSE, None))
          /\ Finish(None, Panic("failed to get balance"))
          /\ UNCHANGED balance
       \/ \E b \in 0..(MaxValue + 1) :
            /\ calls' = Append(calls, Call("get_balance", TRUE, Some(b)))
            /\ balance' = Some(b)
            /\ IF InsufficientFunds(b, DataFee(contract, cfg), cfg.estimate_gas)
               THEN Finish(None, Err("not enough funds in account"))
               ELSE Goto("estimate_gas")
    /\ UNCHANGED <<cfg, contract, printed, sender, tx, est_tx, sent_tx, gas,
                   gas_price, total_cost, tx_hash, receipt, codecVars, feeVars>>

\* Eip1559TransactionRequest::new().from(sender).data(init_code)
NewTx(from, code) ==
    [from |-> from, data |-> contract_deployment_calldata(code),
     gas |-> None, max_fee_per_gas |-> None]

\* a plausible slip: a back-edge, the estimate is requested again
AfterEstimateAgain(k) == "estimate_gas"

\* where deploy_contract goes after the gas estimate
AfterEstimate(k) ==
    IF k.verbose \/ k.estimate_gas THEN "gas_price" ELSE "run_tx"

\* deploy_contract up to client.estimate_gas(&tx.clone()).await?
EstimateGas ==
    /\ pc = "estimate_gas"
    /\ tx' = NewTx(sender, contract.code)
    /\ est_tx' = Some(tx')
    /\ \/ /\ calls' = Append(calls, Call("estimate_gas", FALSE, None))
          /\ OnFailure(Err("estimate_gas"))
          /\ UNCHANGED gas
       \/ \E g \in GasValues :
            /\ calls' = Append(calls, Call("estimate_gas", TRUE, Some(g)))
            /\ gas' = Some(g)
            /\ Goto(AfterEstimate(cfg))
    /\ UNCHANGED <<cfg, contract, printed, sender, balance, sent_tx, gas_price,
                   total_cost, tx_hash, receipt, codecVars, feeVars>>

\* a plausible slip: the early return of estimate-only mode is missing
AfterPrintNoEarlyReturn(k) == "run_tx"

\* where deploy_contract goes after print_gas_estimate
AfterPrint(k) == IF k.estimate_gas THEN "nonce" ELSE "run_tx"

\* print_gas_estimate("deployment", client, gas).await?
PrintGasEstimate ==
    /\ pc = "gas_price"
    /\ \/ /\ calls' = Append(calls, Call("get_gas_price", FALSE, None))
          /\ OnFailure(Err("get_gas_price"))
          /\ UNCHANGED <<gas_price, total_cost>>
       \/ \E p \in GasPrices :
            /\ calls' = Append(calls, Call("get_gas_price", TRUE, Some(p)))
            /\ gas_price' = Some(p)
            /\ total_cost' = Some(TotalCost(p, gas.value))
            /\ Goto(AfterPrint(cfg))
    /\ UNCHANGED <<cfg, contract, printed, sender, balance, tx, est_tx, sent_tx, gas,
                   tx_hash, receipt, codecVars, feeVars>>

\* client.get_transaction_count(sender, None).await?; return Ok(address)
GetTransactionCount ==
    /\ pc = "nonce"
    /\ \/ /\ calls' = Append(calls, Call("get_transaction_count", FALSE, None))
          /\ OnFailure(Err("get_transaction_count"))
       \/ \E n \in 0..MaxNonce :
            /\ calls' = Append(calls, Call("get_transaction_count", TRUE, Some(n)))
            /\ Finish(Ok(get_contract_address(sender, n)), Ok("unit"))
    /\ UNCHANGED <<cfg, contract, printed, sender, balance, tx, est_tx, sent_tx, gas,
                   gas_price, total_cost, tx_hash, receipt, codecVars, feeVars>>

\* a plausible slip: the override is used as wei, without the conversion
PrepareTxRawGwei(t, g, max_fee_per_gas_gwei) ==
    LET t1 == [t EXCEPT !.gas = g]
    IN  IF max_fee_per_gas_gwei.kind = "Some"
        THEN Ok([t1 EXCEPT !.max_fee_per_gas = Some(Widen(max_fee_per_gas_gwei.value))])
        ELSE Ok(t1)

\* a plausible slip: the gas estimate is not put into the transaction
PrepareTxNoGas(t, g, max_fee_per_gas_gwei) ==
    IF max_fee_per_gas_gwei.kind = "Some"
    THEN LET w == gwei_to_wei(max_fee_per_gas_gwei.value)
         IN  IF w.kind = "Err" THEN w
             ELSE Ok([t EXCEPT !.max_fee_per_gas = Some(Widen(w.value))])
    ELSE Ok(t)

\* run_tx before the submission: tx.gas = Some(gas), then the fee override,
\* whose conversion error returns before send_transaction
PrepareTx(t, g, max_fee_per_gas_gwei) ==
    LET t1 == [t EXCEPT !.gas = g]
    IN  IF max_fee_per_gas_gwei.kind = "Some"
        THEN LET w == gwei_to_wei(max_fee_per_gas_gwei.value)
             IN  IF w.kind = "Err" THEN w
                 ELSE Ok([t1 EXCEPT !.max_fee_per_gas = Some(Widen(w.value))])
        ELSE Ok(t1)

\* run_tx up to client.send_transaction(tx, None).await?
SendTransaction ==
    /\ pc = "run_tx"
    /\ \E prepared \in {PrepareTx(tx, gas, cfg.max_fee_per_gas_gwei)} :
           IF prepared.kind = "Err"
           THEN /\ OnFailure(prepared)
                /\ UNCHANGED <<sent_tx, tx_hash, calls>>
           ELSE /\ sent_tx' = Some(prepared.value)
                /\ \/ /\ calls' = Append(calls, Call("send_transaction", FALSE, None))
                      /\ OnFailure(Err("send_transaction"))
                      /\ UNCHANGED tx_hash
                   \/ \E h \in TxHashes :
                        /\ calls' = Append(calls, Call("send_transaction", TRUE, Some(h)))
                        /\ tx_hash' = Some(h)
                        /\ Goto("await")
    /\ UNCHANGED <<cfg, contract, printed, sender, balance, tx, est_tx, gas, gas_price,
                   total_cost, receipt, codecVars, feeVars>>

\* the receipts the chain client may report for the pending transaction
Receipts(h) ==
    [status : {None, Some(0), Some(1), Some(2)},
     contract_address : {None} \cup {Some(get_contract_address(sender, n)) : n \in 0..MaxNonce},
     transaction_hash : {h}]

\* a plausible slip: the status of the receipt is not looked at
run_tx_result_unchecked(r, h) == Ok(r)

\* if receipt.status != Some(U64::from(1)) { bail!(.. tx reverted ..) }; Ok(receipt)
run_tx_result(r, h) ==
    IF r.status # Some(1) THEN ErrTx("tx reverted", h) ELSE Ok(r)

\* a plausible slip: unwrap_or_default instead of ok_or(..)?
deploy_contract_result_default(rt) ==
    IF rt.kind = "Err" THEN rt
    ELSE IF rt.value.contract_address = None THEN Ok(ZeroAddress)
    ELSE Ok(rt.value.contract_address.value)

\* run_tx(..).await?; receipt.contract_address.ok_or(eyre!("missing address"))?
deploy_contract_result(rt) ==
    IF rt.kind = "Err" THEN rt
    ELSE IF rt.value.contract_address = None THEN Err("missing address")
    ELSE Ok(rt.value.contract_address.value)

\* cfg.deploy_contract(..).await?; Ok(())
deploy_result(r) == IF r.kind = "Err" THEN r ELSE Ok("unit")

\* tx.await.wrap_err("tx failed to complete")?, then the classification
AwaitReceipt ==
    /\ pc = "await"
    /\ \/ /\ calls' = Append(calls, Call("await_receipt", FALSE, None))
          /\ OnFailure(Err("tx failed to complete"))
          /\ UNCHANGED receipt
       \/ \* Ok(None): no receipt for the transaction
          /\ calls' = Append(calls, Call("await_receipt", TRUE, None))
          /\ OnFailure(ErrTx("failed to get receipt for tx", tx_hash.value))
          /\ UNCHANGED receipt
       \/ \E r \in Receipts(tx_hash.value) :
            /\ calls' = Append(calls, Call("await_receipt", TRUE, Some(r)))
            /\ receipt' = Some(r)
            /\ LET res == deploy_contract_result(run_tx_result(r, tx_hash.value))
               IN  Finish(res, deploy_result(res))
    /\ UNCHANGED <<cfg, contract, printed, sender, balance, tx, est_tx, sent_tx, gas,
                   gas_price, total_cost, tx_hash, codecVars, feeVars>>

Next ==
    \/ Check
    \/ GetConstructorSignature
    \/ NewProvider
    \/ GetChainId
    \/ LoadWallet
    \/ GetBalance
    \/ EstimateGas
    \/ PrintGasEstimate
    \/ GetTransactionCount
    \/ SendTransaction
    \/ AwaitReceipt

Init == InitDriver

Spec == Init /\ [][Next]_vars

\* deploy is one sequential async function: whenever a step is possible it is
\* eventually taken, every awaited chain-client call eventually returning
SpecLive == Spec /\ WF_vars(Next)


----------------------------------------------------------------------------
(* Properties of the codec, under SpecCodec.                               *)

\* C1: the encoded blob is 43 bytes longer than the payload, and
\* extract_compressed_wasm gives the payload back, the empty one included.
C1_LengthAndRoundTrip ==
    /\ cstage = "encoded" => Len(calldata) = 43 + Len(payload)
    /\ cwasm # None => cwasm.value = Ok(payload)

\* a 256-byte payload has been encoded and recovered
C1_Witness ==
    /\ cstage = "encoded" /\ cwasm # None
    /\ Len(payload) = 256 /\ Len(calldata) = 299

\* the ten bytes that follow the length field
PreludeTail == <<128, 96, 43, 96, 0, 57, 96, 0, 243, 0>>

\* C2: the extracted prelude is 0x7f, the 32-byte big-endian length of the
\* payload, then 0x80 0x60 43 0x60 0x00 0x39 0x60 0x00 0xf3 0x00; preludes of
\* two payloads agree outside the length field (each agrees there with the
\* prelude of the empty payload); the copy-offset byte is the decoder's split
\* offset.
C2_PreludeLayout ==
    cprelude # None =>
        /\ cprelude.value.kind = "Ok"
        /\ LET pre == cprelude.value.value
           IN  /\ Len(pre) = 43
               /\ pre[1] = 127
               /\ BigEndianValue(SubSeq(pre, 2, 33)) = Len(payload)
               /\ SubSeq(pre, 34, 43) = PreludeTail
               /\ pre[36] = metadata_length
               /\ LET other == extract_contract_evm_deployment_prelude(
                                     contract_deployment_calldata(<<>>)).value
                   IN  \A i \in (1..43) \ (2..33) : other[i] = pre[i]

\* the prelude of a payload whose length needs two bytes has been extracted
C2_Witness ==
    /\ cprelude # None
    /\ Len(payload) = 257
    /\ cprelude.value.value[32] = 1 /\ cprelude.value.value[33] = 1

----------------------------------------------------------------------------
(* Properties of gwei_to_wei, under SpecFee.                               *)

\* C8: gwei_to_wei(g) is g * 10^9 whenever that fits in 128 bits (so 1 gwei
\* is 1_000_000_000 wei) and an error, never a wrapped value, whenever the
\* product exceeds the u128 range.
C8_GweiToWei ==
    fstage = "converted" =>
        /\ wei.kind \in {"Ok", "Err"}
        /\ wei.kind = "Err" <=> Greater(gwei, MaxGweiFit)
        /\ wei.kind = "Ok" =>
              /\ Len(wei.value) = U128Bytes
              /\ DivBillion(wei.value).exact
              /\ DivBillion(wei.value).q = gwei
        /\ gwei = Limbs(1, U128Bytes) => wei = Ok(Limbs(1000000000, U128Bytes))

\* the smallest overflowing amount has been converted, and refused
C8_Witness ==
    /\ fstage = "converted"
    /\ gwei = Succ(MaxGweiFit)
    /\ wei.kind = "Err"

\* the largest fitting amount has been converted
C8_WitnessFits ==
    /\ fstage = "converted" /\ gwei = MaxGweiFit /\ wei.kind = "Ok"

----------------------------------------------------------------------------
(* Properties of the transaction driver, under Spec.                       *)

Called(op) == \E i \in DOMAIN calls : calls[i].op = op
Count(op) == Cardinality({i \in DOMAIN calls : calls[i].op = op})
\* the call of op, when there is one
TheCall(op) == calls[CHOOSE i \in DOMAIN calls : calls[i].op = op]

\* C3: with the balance strictly below data_fee + constructor_value and
\* estimate-only mode off, deploy ends with the insufficient-funds error and
\* no transaction is ever submitted.
C3_InsufficientFundsNoSubmission ==
    (/\ balance # None
     /\ balance.value < contract.fee + cfg.experimental_constructor_value
     /\ ~cfg.estimate_gas)
    => /\ pc = "done"
       /\ outcome = Err("not enough funds in account")
       /\ ~Called("send_transaction")
       /\ sent_tx = None

\* a short balance has been reported outside estimate-only mode
C3_Witness ==
    /\ balance = Some(0)
    /\ cfg.experimental_constructor_value = 1
    /\ ~cfg.estimate_gas
    /\ pc = "done" /\ outcome.kind = "Err"

\* C4: in estimate-only mode nothing is submitted and no receipt is awaited,
\* and the address deploy_contract returns is the contract address of the
\* sender and of the transaction count the chain client reported.
C4_EstimateOnly ==
    cfg.estimate_gas =>
        /\ ~Called("send_transaction")
        /\ ~Called("await_receipt")
        /\ sent_tx = None /\ receipt = None
        /\ dc_result.kind = "Ok" =>
              /\ Count("get_transaction_count") = 1
              /\ TheCall("get_transaction_count").ok
              /\ dc_result.value =
                    get_contract_address(sender, TheCall("get_transaction_count").val.value)

\* estimate-only mode has returned the address of a nonce other than 0
C4_Witness ==
    /\ cfg.estimate_gas
    /\ pc = "done" /\ dc_result.kind = "Ok"
    /\ TheCall("get_transaction_count").val = Some(1)
    /\ Called("get_gas_price")

\* C5: once a receipt is obtained, success status (1) with a contract address
\* gives that address, and any other status, an absent one included, gives
\* the reverted failure carrying the hash of the submitted transaction and
\* never an address.
C5_ReceiptClassification ==
    receipt # None =>
        LET r == receipt.value
        IN  /\ pc = "done"
            /\ (r.status = Some(1) /\ r.contract_address # None) =>
                  /\ dc_result = Ok(r.contract_address.value)
                  /\ outcome = Ok("unit")
            /\ r.status # Some(1) =>
                  /\ dc_result = ErrTx("tx reverted", TheCall("send_transaction").val.value)
                  /\ outcome = dc_result
                  /\ dc_result.kind # "Ok"

\* a receipt without status, but with an address, has been classified
C5_Witness ==
    /\ receipt # None
    /\ receipt.value.status = None
    /\ receipt.value.contract_address # None
    /\ dc_result.kind = "Err"

\* C6: a receipt with success status and no contract address ends the attempt
\* in the missing-address failure; no default or empty address is returned.
C6_MissingAddress ==
    (/\ receipt # None
     /\ receipt.value.status = Some(1)
     /\ receipt.value.contract_address = None)
    => /\ pc = "done"
       /\ dc_result = Err("missing address")
       /\ outcome = Err("missing address")

\* a successful receipt without address has been classified
C6_Witness ==
    /\ receipt # None
    /\ receipt.value.status = Some(1)
    /\ receipt.value.contract_address = None
    /\ pc = "done"

\* the 256-bit product, saturated at the largest value
SaturatingMul(a, b) ==
    LET p == MulFull(a, b)
    IN  IF IsZero(SubSeq(p, U256Bytes + 1, 2 * U256Bytes))
        THEN SubSeq(p, 1, U256Bytes) ELSE MaxOf(U256Bytes)

\* C7: the total cost reported is gas_price * gas_units with saturating
\* multiplication: the largest 256-bit value when the product overflows.
C7_SaturatingTotalCost ==
    total_cost # None =>
        total_cost.value = SaturatingMul(gas_price.value, gas.value)

\* the calls the claim's stages are made of, in the order the code makes them
StageRank(op) ==
    CASE op = "get_chainid" -> 0
      [] op = "get_balance" -> 1
      [] op = "estimate_gas" -> 2
      [] op = "get_gas_price" -> 3
      [] op = "get_transaction_count" -> 4
      [] op = "send_transaction" -> 5
      [] op = "await_receipt" -> 6

\* C9 as stated: the gas estimate is requested before the balance is queried.
C9_EstimateBeforeBalance ==
    Called("get_balance") =>
        \E i, j \in DOMAIN calls :
            i < j /\ calls[i].op = "estimate_gas" /\ calls[j].op = "get_balance"

\* C9 (amended): the balance is queried and checked before the gas estimate is
\* requested, the estimate precedes the submission, and the submission
\* precedes the receipt wait; each stage starts only after the one before it
\* succeeded.
C9_StageOrder ==
    /\ \A i, j \in DOMAIN calls :
          i < j => StageRank(calls[i].op) < StageRank(calls[j].op)
    /\ Called("estimate_gas") =>
          /\ Called("get_balance") /\ TheCall("get_balance").ok
          /\ \/ cfg.estimate_gas
             \/ balance.value >= contract.fee + cfg.experimental_constructor_value
    /\ Called("send_transaction") =>
          Called("estimate_gas") /\ TheCall("estimate_gas").ok
    /\ Called("await_receipt") =>
          Called("send_transaction") /\ TheCall("send_transaction").ok
    /\ pc = "await" => Called("send_transaction")
    /\ pc = "run_tx" => Called("estimate_gas")
    /\ pc = "estimate_gas" => Called("get_balance")

\* an attempt has gone through every stage
C9_Witness ==
    /\ pc = "done"
    /\ Called("get_balance") /\ Called("estimate_gas")
    /\ Called("send_transaction") /\ Called("await_receipt")
    /\ outcome.kind = "Ok"

\* the calls of run_tx and deploy_contract that the claim names
RetryOps == {"estimate_gas", "send_transaction", "await_receipt"}

\* a call that failed, or a receipt wait that returned no receipt
Failed(c) == ~c.ok \/ (c.op = "await_receipt" /\ c.val = None)

\* C10: estimate_gas, send_transaction and the receipt wait are each invoked
\* at most once, and once one of them fails (or no receipt is returned) it is
\* the last chain-client call and the attempt has ended in failure.
C10_NoRetry ==
    /\ \A op \in RetryOps : Count(op) <= 1
    /\ \A i \in DOMAIN calls :
          (calls[i].op \in RetryOps /\ Failed(calls[i])) =>
              /\ i = Len(calls)
              /\ pc = "done"
              /\ outcome.kind = "Err"
              /\ dc_result.kind = "Err"

\* the receipt wait has returned no receipt
C10_Witness ==
    /\ Called("await_receipt")
    /\ TheCall("await_receipt").ok /\ TheCall("await_receipt").val = None
    /\ pc = "done"

\* C11: every failure of an external step of deploy (check, chain id, balance,
\* gas estimate, nonce, submission, receipt wait) comes back as an error
\* result of deploy; none aborts the process.
C11_FailuresReturned ==
    /\ outcome.kind # "Panic"
    /\ \A i \in DOMAIN calls : ~calls[i].ok => outcome.kind = "Err"

\* every chain-client call made so far returned Ok
AllCallsOk == \A i \in DOMAIN calls : calls[i].ok

\* C12: with a max fee override in gwei the submitted transaction's
\* max_fee_per_gas is the override times 10^9, without one the field is
\* unset, and when the conversion overflows run_tx fails before
\* send_transaction is called.
C12_MaxFeeOverride ==
    LET o == cfg.max_fee_per_gas_gwei
    IN  /\ sent_tx # None =>
              LET f == sent_tx.value.max_fee_per_gas
              IN  /\ o = None => f = None
                  /\ o # None =>
                        /\ f # None
                        /\ Len(f.value) = U256Bytes
                        /\ DivBillion(f.value).exact
                        /\ DivBillion(f.value).q = Widen(o.value)
        /\ (o # None /\ Greater(o.value, MaxGweiFit)) =>
              /\ ~Called("send_transaction")
              /\ sent_tx = None
              /\ pc # "await"
              /\ (/\ pc = "done" /\ AllCallsOk /\ Called("estimate_gas")
                  /\ ~cfg.estimate_gas)
                 => outcome = Err("overflow occurred while converting gwei to wei")

\* a transaction with a fee override of 1 gwei has been submitted
C12_Witness ==
    /\ cfg.max_fee_per_gas_gwei = Some(Limbs(1, U128Bytes))
    /\ Called("send_transaction") /\ TheCall("send_transaction").ok
    /\ sent_tx # None
    /\ sent_tx.value.max_fee_per_gas = Some(Limbs(1000000000, U256Bytes))

\* an overflowing override has stopped run_tx
C12_WitnessOverflow ==
    /\ outcome = Err("overflow occurred while converting gwei to wei")
    /\ gas # None /\ ~Called("send_transaction")

\* the funds deploy requires: the data fee of check plus the constructor value
RequiredFunds == contract.fee + cfg.experimental_constructor_value

\* the reported balance is short and estimate-only mode is off
ShortBalance ==
    /\ balance # None
    /\ balance.value < RequiredFunds
    /\ ~cfg.estimate_gas

\* C13: the insufficient-funds failure occurs exactly when the balance is
\* below data_fee + constructor_value and estimate-only mode is off; an equal
\* balance goes on to gas estimation and submission, and in estimate-only
\* mode a short balance causes no failure: the would-be address is returned.
C13_InsufficientFundsExactly ==
    /\ outcome = Err("not enough funds in account") <=> ShortBalance
    /\ (balance # None /\ ~ShortBalance) =>
          pc = "estimate_gas" \/ Called("estimate_gas")
    /\ (/\ balance # None /\ ~ShortBalance /\ ~cfg.estimate_gas
        /\ pc = "done" /\ AllCallsOk)
       => \/ Called("send_transaction")
          \/ outcome = Err("overflow occurred while converting gwei to wei")
    /\ (/\ balance # None /\ balance.value < RequiredFunds /\ cfg.estimate_gas
        /\ pc = "done" /\ AllCallsOk)
       => /\ dc_result.kind = "Ok"
          /\ outcome = Ok("unit")

\* a balance equal to the required funds has led to a submission
C13_Witness ==
    /\ balance = Some(1)
    /\ cfg.experimental_constructor_value = 1
    /\ ~cfg.estimate_gas
    /\ Called("send_transaction")

\* estimate-only mode has returned an address with a short balance
C13_WitnessEstimateOnly ==
    /\ balance = Some(0)
    /\ cfg.experimental_constructor_value = 1
    /\ cfg.estimate_gas
    /\ dc_result.kind = "Ok"

\* C14: check returns Ready with a data fee of 0 whatever the payload, so the
\* funds the balance check requires are the constructor value alone, and with
\* constructor value 0 the insufficient-funds failure never occurs.
C14_ZeroDataFee ==
    /\ contract # None => contract.fee = 0
    /\ balance # None => DataFee(contract, cfg) = cfg.experimental_constructor_value
    /\ cfg.experimental_constructor_value = 0 =>
          /\ outcome # Err("not enough funds in account")
          /\ balance # None => pc = "estimate_gas" \/ Called("estimate_gas")

\* balance 0 has passed the check with constructor value 0
C14_Witness ==
    /\ cfg.experimental_constructor_value = 0
    /\ ~cfg.estimate_gas
    /\ balance = Some(0)
    /\ Called("estimate_gas")

----------------------------------------------------------------------------
(* Termination of the driver, under SpecLive.                              *)

\* the positions of deploy in the order of the source text
PcRank(p) ==
    CASE p = "check" -> 0
      [] p = "constructor" -> 1
      [] p = "provider" -> 2
      [] p = "chainid" -> 3
      [] p = "wallet" -> 4
      [] p = "balance" -> 5
      [] p = "estimate_gas" -> 6
      [] p = "gas_price" -> 7
      [] p = "nonce" -> 8
      [] p = "run_tx" -> 9
      [] p = "await" -> 10
      [] p = "done" -> 11

\* C15: provided every chain-client call returns, an attempt eventually
\* reaches a terminal outcome, exactly one, and takes no step after it; every
\* step moves strictly forward (no back-edge).
C15_Terminates ==
    /\ <>(pc = "done")
    /\ [](pc = "done" <=> outcome # None)
    /\ [][/\ PcRank(pc') > PcRank(pc)
          /\ outcome = None]_vars

\* an attempt has ended with a confirmed address after every stage
C15_Witness ==
    /\ pc = "done"
    /\ outcome = Ok("unit")
    /\ receipt # None
    /\ dc_result.kind = "Ok"

----------------------------------------------------------------------------
\* C16: the input data of the submitted transaction is the InitBytecode that
\* check printed under DEPLOYMENT_CODE in the same run, byte for byte (both wrap
\* the compressed payload of the compress step).
C16_SubmittedIsPrinted ==
    sent_tx # None => Hex(sent_tx.value.data) = printed

\* the payload the submitted transaction wraps is what check kept as the
\* contract's code, whatever check printed
C16_SubmittedWrapsContractCode ==
    sent_tx # None =>
        /\ extract_compressed_wasm(sent_tx.value.data) = Ok(contract.code)
        /\ contract.code \in WasmSamples

----------------------------------------------------------------------------
\* C17: the encoder of check.rs and the encoder of deploy/mod.rs return the
\* same bytes for every payload, and both agree with the split offset of the
\* two decode functions: the copy offset either one embeds is that offset, and
\* splitting either output there gives back the payload after a prelude of
\* that length.
AgreesWithSplit(data) ==
    /\ data[U256Bytes + 4] = metadata_length
    /\ extract_compressed_wasm(data) = Ok(payload)
    /\ extract_contract_evm_deployment_prelude(data).kind = "Ok"
    /\ Len(extract_contract_evm_deployment_prelude(data).value) = metadata_length
    /\ Len(data) = metadata_length + Len(payload)

C17_EncodersAgree ==
    /\ (cstage = "encoded" /\ check_calldata # None) => check_calldata.value = calldata
    /\ cstage = "encoded" => AgreesWithSplit(calldata)
    /\ check_calldata # None => AgreesWithSplit(check_calldata.value)

\* both encoders have run on a payload of more than 255 bytes
C17_Witness ==
    /\ cstage = "encoded"
    /\ check_calldata # None
    /\ Len(payload) > 255
    /\ check_calldata.value = calldata

----------------------------------------------------------------------------
\* C18: the transaction passed to send_transaction has the sender and the
\* input data of the request that was used for the gas estimate of the same
\* attempt, its gas limit is the estimate the chain client returned, and
\* neither the request, the estimate nor the submitted transaction changes
\* once it exists.
C18_SubmittedMatchesEstimated ==
    sent_tx # None =>
        /\ est_tx # None
        /\ Called("estimate_gas") /\ TheCall("estimate_gas").ok
        /\ sent_tx.value.from = est_tx.value.from
        /\ sent_tx.value.data = est_tx.value.data
        /\ sent_tx.value.gas = TheCall("estimate_gas").val
        /\ sent_tx.value.gas # None

C18_FixedBeforeSubmission ==
    /\ []C18_SubmittedMatchesEstimated
    /\ [][/\ est_tx # None => (est_tx' = est_tx /\ tx' = tx /\ gas' = gas)
          /\ sent_tx # None => sent_tx' = sent_tx]_vars

\* a transaction has been submitted after the estimate was printed in between
C18_Witness ==
    /\ Called("send_transaction") /\ TheCall("send_transaction").ok
    /\ Called("get_gas_price")
    /\ sent_tx # None
    /\ sent_tx.value.gas = Some(Limbs(21000, U256Bytes))
    /\ sent_tx.value.from = sender

====
